---- MODULE Spec2Model ----
(***************************************************************************)
(* P6 (src/src/p6.py): a gridded parameter study.  main() expands one      *)
(* (start, stop, step) triple per axis and submits the target function on  *)
(* every tuple of the product to a ProcessPoolExecutor; a done callback    *)
(* hands (state, result) to a ThreadPoolExecutor whose tasks append one    *)
(* line per result to out.swp.                                             *)
(*                                                                         *)
(* Numbers.  The axis values are Python floats.  The model writes a float  *)
(* as an integer count of one dyadic quantum (1, 0.5, 0.25, ...): for such *)
(* values of small magnitude start/step is correctly rounded and differs   *)
(* from the nearest integer by far more than one ulp unless it is that     *)
(* integer, so int(start/step) is the quotient truncated toward zero, and  *)
(* x * step is exact.                                                      *)
(*                                                                         *)
(* Types.  The axes are annotated float and the target returns a float, so *)
(* the format specification of save()'s line applies to every field.  The  *)
(* target's value is kept as the term main(state).                         *)
(*                                                                         *)
(* Threads.  main runs alone up to the with block.  From then on the       *)
(* worker processes (at most max_workers, one work item each), the         *)
(* executor's manager thread (which sets each future's result and calls    *)
(* the callbacks attached by then) and the writer threads interleave with  *)
(* main's loop; exe.shutdown(wait=True) joins the manager thread.          *)
(***************************************************************************)
EXTENDS Integers, Sequences, FiniteSets, TLC

\* ------------------------------------------------------------------ bounds
\* axis values of the pure-function specification lie in -MaxVal..MaxVal
MaxVal == 2
\* number of axes of the target function's signature
MaxAxes == 2
\* os.cpu_count() lies in 1..MaxCpu
MaxCpu == 3
\* largest stop value of a well-formed triple given to main
MaxStop == 2
\* largest parameter space main is run on
MaxTuples == 4

\* ------------------------------------------------------- program constants
\* ThreadPoolExecutor(max_workers=16)
ThreadWorkers == 16

\* class EXIT(Enum)
EXIT == [OK |-> 0, NO_MODULE_NAMED_Y |-> 1, NO_MAIN_IN_MODULE |-> 2,
         WRITE_IN_THREAD_FAILED |-> 7]

\* ------------------------------------------------------------ pure helpers
Abs(n) == IF n < 0 THEN -n ELSE n

\* int(a / b) for b # 0: true division, then truncation toward zero
IntDiv(a, b) ==
    IF (a >= 0) = (b > 0) THEN Abs(a) \div Abs(b) ELSE -(Abs(a) \div Abs(b))

\* list(range(lo, hi))
Range(lo, hi) == [k \in 1..(IF hi > lo THEN hi - lo ELSE 0) |-> lo + k - 1]

\* the outcome of a call: the value returned, or the exception raised
Returns(v) == [exc |-> "none", val |-> v]
Raises(e) == [exc |-> e, val |-> <<>>]

\* the triple as float_range's arguments
Start(cs) == cs[1]
Stop(cs) == cs[2]
Step(cs) == cs[3]

\* float_range(start, stop, step): the list it returns; start/step raises
\* ZeroDivisionError when step = 0
float_range(start, stop, step) ==
    IF step = 0 THEN Raises("ZeroDivisionError")
    ELSE LET r == Range(IntDiv(start, step), IntDiv(stop, step) + 1)
         IN Returns([k \in 1..Len(r) |-> r[k] * step])

\* itertools.product over the lists of space: result = [[]]; for pool in space:
\* result = [x + [y] for x in result for y in pool]
RECURSIVE productFirstFastest(_)
productFirstFastest(space) ==
    IF space = <<>> THEN << <<>> >>
    ELSE LET rest == productFirstFastest(Tail(space))
             pool == Head(space)
         IN [k \in 1..(Len(rest) * Len(pool)) |->
                <<pool[((k - 1) % Len(pool)) + 1]>> \o
                rest[((k - 1) \div Len(pool)) + 1]]

RECURSIVE productList(_)
productList(space) ==
    IF space = <<>> THEN << <<>> >>
    ELSE LET n == Len(space)
             result == productList(SubSeq(space, 1, n - 1))
             pool == space[n]
         IN [k \in 1..(Len(result) * Len(pool)) |->
                Append(result[((k - 1) \div Len(pool)) + 1],
                       pool[((k - 1) % Len(pool)) + 1])]

\* a product that passed over the lists with no element
productSkipEmpty(space) ==
    productList(SelectSeq(space, LAMBDA pool : pool # <<>>))

product(space) == productList(space)

\* yield_parameter_space(args): every axis is expanded (eagerly, in
\* declaration order) before product() is built; the first step = 0 raises
expandAll(cspace) == [k \in 1..Len(cspace) |->
                        float_range(Start(cspace[k]), Stop(cspace[k]), Step(cspace[k]))]

yield_parameter_space(cspace) ==
    LET space == expandAll(cspace)
    IN IF \E k \in 1..Len(space) : space[k].exc # "none"
       THEN Raises(space[CHOOSE k \in 1..Len(space) :
                            /\ space[k].exc # "none"
                            /\ \A m \in 1..(k - 1) : space[m].exc = "none"].exc)
       ELSE Returns(product([k \in 1..Len(space) |-> space[k].val]))

\* ------------------------------------------------------------------ state
VARIABLES
    module,   \* what importlib.import_module(args.script) finds
    cpu,      \* os.cpu_count()
    args,     \* the parsed Namespace's values: one triple per axis
    disk,     \* out.swp: whether it exists, and its lines
    fp,       \* the file object: "none", "open", "closed"
    pc,       \* main's position
    ret,      \* what main returned or raised
    cores,    \* max_workers of the ProcessPoolExecutor
    exe,      \* ProcessPoolExecutor: "none", "running", "shutdown", "joined"
    tp,       \* ThreadPoolExecutor: "none", "running", "shutdown"
    gen,      \* the tuples the product generator has still to yield
    futures,  \* the futures of exe.submit, in submission order
    wtasks,   \* the save tasks of thread_pool.submit, in submission order
    stdout,   \* what main has printed
    rargs,    \* yield_parameter_space on its own: its argument,
    rspace,   \*   the list "space" it builds,
    rout,     \*   what it returned or raised,
    rpc       \*   and its position

mainVars == <<module, cpu, args, disk, fp, pc, ret, cores, exe, tp, gen,
              futures, wtasks, stdout>>
rangeVars == <<rargs, rspace, rout, rpc>>
vars == <<module, cpu, args, disk, fp, pc, ret, cores, exe, tp, gen,
          futures, wtasks, stdout, rargs, rspace, rout, rpc>>

\* no out.swp in the working directory
NoFile == [exists |-> FALSE, lines |-> <<>>]

\* a line left in out.swp by an earlier run
StaleLine == <<"stale">>

\* module.main of the state: the target is the user's code, so its value is
\* the uninterpreted term main(state)
TargetResult(state) == <<"main", state>>

\* the fields of the line save() formats: the state's values, then the result
FormatLine(state, result) == Append(state, result)

SeqsUpTo(S, n) == UNION {[1..k -> S] : k \in 1..n}

\* triples over lo..hi
Triples(lo, hi) == {<<a, b, c>> : a \in lo..hi, b \in lo..hi, c \in lo..hi}

\* the triples main is run on: 0..stop in steps of one (stop + 1 values), a
\* triple with start > stop and one with step = 0
MainTriples == {<<0, b, 1>> : b \in 1..MaxStop} \cup {<<1, 0, 1>>, <<0, 1, 0>>}

\* the arguments yield_parameter_space is run on by itself: every single
\* triple over -MaxVal..MaxVal, and several axes of main's triples or a
\* descending one
RangeArgs == {<<t>> : t \in Triples(-MaxVal, MaxVal)}
             \cup SeqsUpTo(MainTriples \cup {<<1, 0, -1>>}, MaxAxes)

\* the number of tuples of a Namespace without a zero step
SpaceSize(cspace) == Len(yield_parameter_space(cspace).val)

\* the Namespaces main is run on
MainArgs == {a \in SeqsUpTo(MainTriples, MaxAxes) : SpaceSize(a) <= MaxTuples}

\* ------------------------------------------------------------------- main
Init ==
    /\ module \in {"missing", "no_main", "ok"}
    /\ cpu \in 1..MaxCpu
    /\ args \in MainArgs
    /\ disk \in {NoFile, [exists |-> TRUE, lines |-> <<StaleLine>>]}
    /\ fp = "none"
    /\ pc = "import"
    /\ ret = "none"
    /\ cores = 0
    /\ exe = "none"
    /\ tp = "none"
    /\ gen = <<>>
    /\ futures = <<>>
    /\ wtasks = <<>>
    /\ stdout = <<>>
    /\ rargs = <<>>
    /\ rspace = <<>>
    /\ rout = Returns(<<>>)
    /\ rpc = "idle"

\* importlib.import_module(args.script) raised ImportError
ImportFails ==
    /\ pc = "import"
    /\ module = "missing"
    /\ stdout' = Append(stdout, "did you prehaps add .py at the end of the filename?")
    /\ pc' = "returned"
    /\ ret' = "NO_MODULE_NAMED_Y"
    /\ UNCHANGED <<module, cpu, args, disk, fp, cores, exe, tp, gen, futures,
                   wtasks, rangeVars>>

ImportModule ==
    /\ pc = "import"
    /\ module # "missing"
    /\ pc' = "hasattr"
    /\ UNCHANGED <<module, cpu, args, disk, fp, ret, cores, exe, tp, gen,
                   futures, wtasks, stdout,
                   rangeVars>>

\* the name the no-main branch looks up on EXIT
NoMainMember == "NO_MAIN"

\* `return EXIT.<member>`: an Enum class without that member raises
\* AttributeError on the lookup
ReturnExit(member) ==
    IF member \in DOMAIN EXIT
    THEN pc' = "returned" /\ ret' = member
    ELSE pc' = "raised" /\ ret' = "AttributeError"

\* not hasattr(module, "main")
NoMain ==
    /\ pc = "hasattr"
    /\ module = "no_main"
    /\ stdout' = Append(stdout, "no main function found")
    /\ ReturnExit(NoMainMember)
    /\ UNCHANGED <<module, cpu, args, disk, fp, cores, exe, tp, gen, futures,
                   wtasks, rangeVars>>

\* make_parser_for_main and parse_known_args: args is now the triples
ParseArgs ==
    /\ pc = "hasattr"
    /\ module = "ok"
    /\ pc' = "open"
    /\ UNCHANGED <<module, cpu, args, disk, fp, ret, cores, exe, tp, gen,
                   futures, wtasks, stdout,
                   rangeVars>>

\* out.swp after `if os.path.exists: os.remove` and open(..., "a")
ResetSwapKeepingFile(d) == [exists |-> TRUE, lines |-> d.lines]

ResetSwap(d) == [exists |-> TRUE, lines |-> <<>>]

OpenOutput ==
    /\ pc = "open"
    /\ stdout' = IF disk.exists THEN Append(stdout, "resetting swap file...")
                  ELSE stdout
    /\ disk' = ResetSwap(disk)
    /\ fp' = "open"
    /\ pc' = "pools"
    /\ UNCHANGED <<module, cpu, args, ret, cores, exe, tp, gen, futures,
                   wtasks, rangeVars>>

\* cores = os.cpu_count()-1; ThreadPoolExecutor(max_workers=16);
\* ProcessPoolExecutor(max_workers=cores) raises ValueError for cores <= 0
StartPools ==
    /\ pc = "pools"
    /\ cores' = cpu - 1
    /\ tp' = "running"
    /\ IF cpu - 1 <= 0
       THEN pc' = "raised" /\ ret' = "ValueError" /\ exe' = exe
       ELSE pc' = "space" /\ ret' = ret /\ exe' = "running"
    /\ UNCHANGED <<module, cpu, args, disk, fp, gen, futures, wtasks, stdout,
                   rangeVars>>

\* print("starting task submission") and the call of
\* `for state in yield_parameter_space(args)`, made inside the with block; an
\* exception leaves the block through exe.shutdown(wait=True)
BuildSpace ==
    /\ pc = "space"
    /\ stdout' = Append(stdout, "starting task submission")
    /\ LET space == yield_parameter_space(args)
       IN IF space.exc # "none"
          THEN /\ pc' = "raised"
               /\ ret' = space.exc
               /\ exe' = "joined"
               /\ gen' = gen
          ELSE /\ pc' = "loop"
               /\ gen' = space.val
               /\ UNCHANGED <<ret, exe>>
    /\ UNCHANGED <<module, cpu, args, disk, fp, cores, tp, futures, wtasks,
                   rangeVars>>

\* future = exe.submit(module.main, *state)
Submit ==
    /\ pc = "loop"
    /\ gen # <<>>
    /\ futures' = Append(futures, [state |-> Head(gen), st |-> "PENDING",
                                   exc |-> FALSE, cb |-> "none", calls |-> 0])
    /\ gen' = Tail(gen)
    /\ pc' = "callback"
    /\ UNCHANGED <<module, cpu, args, disk, fp, ret, cores, exe, tp, wtasks, stdout,
                   rangeVars>>

\* a save task as thread_pool.submit(save, state, result, fp) queues it
SaveTask(state, result) ==
    [state |-> state, result |-> result, st |-> "queued", ioerr |-> FALSE]

\* save_on_complete(future, state, thread_pool, fp): future.result() raises
\* the invocation's exception, and thread_pool.submit raises RuntimeError
\* after shutdown; either leaves the callback (the executor logs it) with
\* nothing submitted.  The value is the write pool's task list afterwards
save_on_complete_twice(f, state, wt, pool) ==
    IF f.exc \/ pool # "running" THEN wt
    ELSE Append(Append(wt, SaveTask(state, TargetResult(f.state))),
                SaveTask(state, TargetResult(f.state)))

save_on_complete_exception_as_result(f, state, wt, pool) ==
    IF pool # "running" THEN wt
    ELSE Append(wt, SaveTask(state, IF f.exc THEN <<"exception", f.state>>
                                    ELSE TargetResult(f.state)))

save_on_complete_any_outcome(f, state, wt, pool) ==
    IF pool # "running" THEN wt
    ELSE Append(wt, SaveTask(state, TargetResult(f.state)))

save_on_complete(f, state, wt, pool) ==
    IF f.exc \/ pool # "running" THEN wt
    ELSE Append(wt, SaveTask(state, TargetResult(f.state)))

\* the number of failed invocations the program has counted: no statement
\* of save_on_complete, or of main, counts them
FailureCount == 0

\* how a call of save_on_complete ends: "raised" when future.result() or
\* thread_pool.submit raised (the executor logs "exception calling callback")
CallbackOutcome(f, pool) ==
    IF f.exc \/ pool # "running" THEN "raised" ELSE "ran"

\* a callback that read the loop variable when called would see the tuple
\* submitted last
CallbackStateOfLoopVariable(i) == futures[Len(futures)].state

\* the state a future's callback is called with: partial() froze the loop
\* variable's value when the callback was made, the tuple just submitted
CallbackState(i) == futures[i].state

\* a call of future i's done callback, by whichever thread makes it
CallCallback(i) ==
    /\ futures' = [futures EXCEPT ![i].cb = CallbackOutcome(futures[i], tp),
                                  ![i].calls = @ + 1]
    /\ wtasks' = save_on_complete(futures[i], CallbackState(i), wtasks, tp)

\* future.add_done_callback(partial(save_on_complete, state=state, ...)):
\* a finished future calls it at once, in main's thread
AddDoneCallback ==
    /\ pc = "callback"
    /\ LET i == Len(futures)
       IN IF futures[i].st = "FINISHED"
          THEN CallCallback(i)
          ELSE /\ futures' = [futures EXCEPT ![i].cb = "attached"]
               /\ wtasks' = wtasks
    /\ pc' = "loop"
    /\ UNCHANGED <<module, cpu, args, disk, fp, ret, cores, exe, tp, gen, stdout,
                   rangeVars>>

\* leaving the with block: exe.shutdown(wait=True) stops submissions ...
ExeShutdown ==
    /\ pc = "loop"
    /\ gen = <<>>
    /\ exe' = "shutdown"
    /\ pc' = "exe_wait"
    /\ UNCHANGED <<module, cpu, args, disk, fp, ret, cores, tp, gen, futures,
                   wtasks, stdout,
                   rangeVars>>

\* every future has its result or exception set
AllResultsSet == \A i \in 1..Len(futures) : futures[i].st = "FINISHED"

\* the executor's manager thread has ended: no work item is left and it has
\* returned from the last set_result, callbacks included
ManagerThreadEnded ==
    \A i \in 1..Len(futures) :
        futures[i].st = "FINISHED" /\ futures[i].cb # "due"

\* ... and joins the executor's manager thread
ExeJoined ==
    /\ pc = "exe_wait"
    /\ ManagerThreadEnded
    /\ exe' = "joined"
    /\ pc' = "tp_shutdown"
    /\ UNCHANGED <<module, cpu, args, disk, fp, ret, cores, tp, gen, futures,
                   wtasks, stdout,
                   rangeVars>>

\* thread_pool.shutdown(wait=True) stops submissions ...
TpShutdown ==
    /\ pc = "tp_shutdown"
    /\ tp' = "shutdown"
    /\ pc' = "tp_wait"
    /\ UNCHANGED <<module, cpu, args, disk, fp, ret, cores, exe, gen, futures,
                   wtasks, stdout,
                   rangeVars>>

\* the write pool's threads have ended without waiting for their tasks
WriterThreadsNotAwaited == TRUE

\* the write pool's threads have ended: the queue is empty and every save
\* call has returned or raised
WriterThreadsEnded ==
    \A j \in 1..Len(wtasks) : wtasks[j].st \notin {"queued", "running"}

\* ... and joins the worker threads
TpJoined ==
    /\ pc = "tp_wait"
    /\ WriterThreadsEnded
    /\ pc' = "close"
    /\ UNCHANGED <<module, cpu, args, disk, fp, ret, cores, exe, tp, gen,
                   futures, wtasks, stdout,
                   rangeVars>>

\* what main returns after fp.close()
FinalStatus(wt) == "OK"

\* the status of the process: exit(main(args).value), or 1 when main left
\* with an uncaught exception
ExitValue == IF pc = "returned" THEN EXIT[ret] ELSE 1

\* fp.close(); the two prints; return EXIT.OK
Close ==
    /\ pc = "close"
    /\ fp' = "closed"
    /\ stdout' = Append(stdout, "All tasks done, file closed succesfully")
    /\ ReturnExit(FinalStatus(wtasks))
    /\ UNCHANGED <<module, cpu, args, disk, cores, exe, tp, gen, futures,
                   wtasks, rangeVars>>

\* ------------------------------------------------------- the compute pool
NumRunning == Cardinality({i \in 1..Len(futures) : futures[i].st = "RUNNING"})

\* a worker process is free for the next work item of the call queue
WorkerFreeAlways == TRUE

WorkerFree == NumRunning < cores

\* a worker process takes the oldest waiting work item and calls
\* module.main on its state ("RUNNING": inside the target function)
StartInvoke(i) ==
    /\ exe \in {"running", "shutdown"}
    /\ futures[i].st = "PENDING"
    /\ \A k \in 1..(i - 1) : futures[k].st # "PENDING"
    /\ WorkerFree
    /\ futures' = [futures EXCEPT ![i].st = "RUNNING"]
    /\ UNCHANGED <<module, cpu, args, disk, fp, pc, ret, cores, exe, tp, gen,
                   wtasks, stdout,
                   rangeVars>>

\* the target function returns or raises; the worker puts the outcome on the
\* result queue and is free again
Return(i, raised) ==
    /\ futures[i].st = "RUNNING"
    /\ futures' = [futures EXCEPT ![i].st = "RETURNED", ![i].exc = raised]
    /\ UNCHANGED <<module, cpu, args, disk, fp, pc, ret, cores, exe, tp, gen,
                   wtasks, stdout,
                   rangeVars>>

\* the executor's manager thread (one thread) takes an outcome off the
\* result queue: set_result / set_exception marks the future finished and
\* takes the callbacks attached by then ...
ProcessResult(i) ==
    /\ futures[i].st = "RETURNED"
    /\ \A k \in 1..Len(futures) : futures[k].cb # "due"
    /\ futures' = [futures EXCEPT ![i].st = "FINISHED",
                                  ![i].cb = IF @ = "attached" THEN "due" ELSE @]
    /\ UNCHANGED <<module, cpu, args, disk, fp, pc, ret, cores, exe, tp, gen,
                   wtasks, stdout, rangeVars>>

\* ... and calls them, still inside set_result
InvokeCallbacks(i) ==
    /\ futures[i].cb = "due"
    /\ CallCallback(i)
    /\ UNCHANGED <<module, cpu, args, disk, fp, pc, ret, cores, exe, tp, gen,
                   stdout, rangeVars>>

\* --------------------------------------------------------- the write pool
NumSaving == Cardinality({j \in 1..Len(wtasks) : wtasks[j].st = "running"})

\* a pool thread takes the oldest queued task and enters save(): the line is
\* formatted
StartSave(j) ==
    /\ wtasks[j].st = "queued"
    /\ \A k \in 1..(j - 1) : wtasks[k].st # "queued"
    /\ NumSaving < ThreadWorkers
    /\ wtasks' = [wtasks EXCEPT ![j].st = "running"]
    /\ UNCHANGED <<module, cpu, args, disk, fp, pc, ret, cores, exe, tp, gen,
                   futures, stdout,
                   rangeVars>>

\* fp.write(line) in save(): the line is appended and save returns None; or
\* the write raises IOError, and the handler's print(e.msg) raises
\* AttributeError (OSError has no msg) before its return statement; a closed
\* file raises ValueError, which save does not catch
\* how save's `except IOError as e` block ends: its first statement,
\* print(e.msg), raises AttributeError
IOErrorHandler == "AttributeError"

WriteLine(j, ioerror) ==
    /\ wtasks[j].st = "running"
    /\ IF fp # "open"
       THEN /\ wtasks' = [wtasks EXCEPT ![j].st = "ValueError"]
            /\ disk' = disk
       ELSE IF ioerror
       THEN /\ wtasks' = [wtasks EXCEPT ![j].st = IOErrorHandler,
                                        ![j].ioerr = TRUE]
            /\ disk' = disk
       ELSE /\ wtasks' = [wtasks EXCEPT ![j].st = "None"]
            /\ disk' = [disk EXCEPT !.lines =
                            Append(@, FormatLine(wtasks[j].state, wtasks[j].result))]
    /\ UNCHANGED <<module, cpu, args, fp, pc, ret, cores, exe, tp, gen,
                   futures, stdout,
                   rangeVars>>

Next ==
    \/ ImportFails
    \/ ImportModule
    \/ NoMain
    \/ ParseArgs
    \/ OpenOutput
    \/ StartPools
    \/ BuildSpace
    \/ Submit
    \/ AddDoneCallback
    \/ ExeShutdown
    \/ ExeJoined
    \/ TpShutdown
    \/ TpJoined
    \/ Close
    \/ \E i \in 1..Len(futures) : StartInvoke(i)
    \/ \E i \in 1..Len(futures), raised \in BOOLEAN : Return(i, raised)
    \/ \E i \in 1..Len(futures) : ProcessResult(i)
    \/ \E i \in 1..Len(futures) : InvokeCallbacks(i)
    \/ \E j \in 1..Len(wtasks) : StartSave(j)
    \/ \E j \in 1..Len(wtasks), ioerror \in BOOLEAN : WriteLine(j, ioerror)

Spec == Init /\ [][Next]_vars

\* ------------------------------------------- yield_parameter_space, alone
InitRange ==
    /\ rargs \in RangeArgs
    /\ rspace = <<>>
    /\ rout = Returns(<<>>)
    /\ rpc = "expand"
    /\ module = "ok"
    /\ cpu = 1
    /\ args = <<>>
    /\ disk = NoFile
    /\ fp = "none"
    /\ pc = "idle"
    /\ ret = "none"
    /\ cores = 0
    /\ exe = "none"
    /\ tp = "none"
    /\ gen = <<>>
    /\ futures = <<>>
    /\ wtasks = <<>>
    /\ stdout = <<>>

\* for cs in compressed_space: space.append(float_range(*cs))
ExpandAxis ==
    /\ rpc = "expand"
    /\ Len(rspace) < Len(rargs)
    /\ LET cs == rargs[Len(rspace) + 1]
           r == float_range(Start(cs), Stop(cs), Step(cs))
       IN IF r.exc # "none"
          THEN /\ rpc' = "raised"
               /\ rout' = Raises(r.exc)
               /\ rspace' = rspace
          ELSE /\ rspace' = Append(rspace, r.val)
               /\ UNCHANGED <<rpc, rout>>
    /\ UNCHANGED <<rargs, mainVars>>

\* return product(*space)
ReturnProduct ==
    /\ rpc = "expand"
    /\ Len(rspace) = Len(rargs)
    /\ rout' = Returns(product(rspace))
    /\ rpc' = "returned"
    /\ UNCHANGED <<rargs, rspace, mainVars>>

NextRange ==
    \/ ExpandAxis
    \/ ReturnProduct

SpecRange == InitRange /\ [][NextRange]_vars

\* =================================================================== claims
\* the triples the range contract excludes: step <= 0 or start > stop
Malformed(cs) == Step(cs) <= 0 \/ Start(cs) > Stop(cs)

\* the axes float_range has been called on so far
Expanded == 1..(IF rpc = "raised" THEN Len(rspace) + 1 ELSE Len(rspace))

\* C5: float_range fails with InvalidRangeError, and returns no value
\* sequence, for every triple with step <= 0 or start > stop.  (The claim as
\* stated; float_range has no such check.)
C5_MalformedRangeRejected ==
    \A k \in Expanded :
        Malformed(rargs[k]) =>
            /\ k > Len(rspace)
            /\ rout.exc = "InvalidRangeError"

\* start, start + step, start + 2*step, ... while the term is <= stop
ArithmeticSequence(start, stop, step) ==
    [i \in 1..(((stop - start) \div step) + 1) |-> start + (i - 1) * step]

\* C6: for step > 0 and start <= stop float_range returns start, start+step,
\* ... up to the last term <= stop: floor((stop-start)/step)+1 elements, the
\* first one start, none above stop.  (The claim as stated; float_range
\* returns the multiples of step from int(start/step) to int(stop/step).)
C6_RangeStartsAtStartWithinStop ==
    \A k \in 1..Len(rspace) :
        ~Malformed(rargs[k]) =>
            /\ rspace[k] = ArithmeticSequence(Start(rargs[k]), Stop(rargs[k]),
                                              Step(rargs[k]))
            /\ Len(rspace[k]) = ((Stop(rargs[k]) - Start(rargs[k]))
                                    \div Step(rargs[k])) + 1
            /\ rspace[k][1] = Start(rargs[k])
            /\ \A i \in 1..Len(rspace[k]) : rspace[k][i] <= Stop(rargs[k])

\* the product of the lengths of the axes after axis i
RECURSIVE Stride(_, _)
Stride(space, i) ==
    IF i >= Len(space) THEN 1 ELSE Len(space[i + 1]) * Stride(space, i + 1)

\* all combinations of one value per axis, as a set
Combinations(space) ==
    {t \in [1..Len(space) -> UNION {{space[i][j] : j \in 1..Len(space[i])}
                                        : i \in 1..Len(space)}] :
        \A i \in 1..Len(space) : \E j \in 1..Len(space[i]) : t[i] = space[i][j]}

\* C7: yield_parameter_space yields every combination of the expanded axis
\* values exactly once: as many tuples as the product of the axes' value
\* counts, no tuple twice, each with one value per axis in declaration order,
\* and the last-declared axis varying fastest.
C7_ProductCoversSpaceOnce ==
    rpc = "returned" =>
        LET out == rout.val
        IN /\ Len(out) = Stride(rspace, 0)
           /\ \A a, b \in 1..Len(out) : out[a] = out[b] => a = b
           /\ {out[a] : a \in 1..Len(out)} = Combinations(rspace)
           /\ \A a \in 1..Len(out) :
                 /\ Len(out[a]) = Len(rspace)
                 /\ \A i \in 1..Len(rspace) :
                       out[a][i] = rspace[i][(((a - 1) \div Stride(rspace, i))
                                                 % Len(rspace[i])) + 1]

\* C7 witness: a product of two axes of at least two values each was returned
C7_Witness ==
    /\ rpc = "returned"
    /\ Len(rspace) >= 2
    /\ Len(rspace[1]) >= 2
    /\ Len(rspace[2]) >= 2
    /\ Len(rout.val) = Len(rspace[1]) * Len(rspace[2])

\* ---------------------------------------------------------- claims on main
\* the parameter space of the run
Space == yield_parameter_space(args).val

\* main has drained both pools, closed the stream and returned
Closed == pc = "returned" /\ fp = "closed"

\* the lines of out.swp that begin with the values of tuple t
LinesOf(t) == {l \in 1..Len(disk.lines) :
                  /\ Len(disk.lines[l]) = Len(t) + 1
                  /\ SubSeq(disk.lines[l], 1, Len(t)) = t}

AllInvocationsSucceeded == \A i \in 1..Len(futures) : ~futures[i].exc

NoWriteFailed == \A j \in 1..Len(wtasks) : wtasks[j].st = "None"

\* C1: when every invocation succeeded and no write failed, after main has
\* drained both pools and closed the stream the output has exactly N lines,
\* exactly one for each of the N tuples of the parameter space.
C1_EveryTupleWrittenOnce ==
    (Closed /\ AllInvocationsSucceeded /\ NoWriteFailed) =>
        /\ Len(disk.lines) = Len(Space)
        /\ \A k \in 1..Len(Space) : Cardinality(LinesOf(Space[k])) = 1

\* C1 witness: a closed study of at least three tuples, all written, whose
\* first line is not the first tuple's (completion order, not submission order)
C1_Witness ==
    /\ Closed /\ AllInvocationsSucceeded /\ NoWriteFailed
    /\ Len(Space) >= 3
    /\ Len(disk.lines) = Len(Space)
    /\ LinesOf(Space[1]) # {1}

Raised == {i \in 1..Len(futures) : futures[i].exc}

\* C2: when the target raises for exactly one tuple of N (and no write
\* failed), the study still drains and closes, and the output then has the
\* lines of the N-1 other tuples, one each, and no line for the failing one.
C2_FailureIsolated ==
    (Closed /\ Cardinality(Raised) = 1 /\ NoWriteFailed) =>
        /\ Len(futures) = Len(Space)
        /\ Len(disk.lines) = Len(Space) - 1
        /\ \A i \in 1..Len(futures) :
              Cardinality(LinesOf(futures[i].state)) =
                 (IF futures[i].exc THEN 0 ELSE 1)

\* C2 witness: a closed study of at least three tuples in which the first
\* submitted tuple raised and the later ones were written
C2_Witness ==
    /\ Closed /\ NoWriteFailed
    /\ Len(futures) >= 3
    /\ Raised = {1}
    /\ Len(disk.lines) = Len(futures) - 1

\* C3: if a write of a record failed during the run, the status main returns
\* is not EXIT.OK.  (The claim as stated; main returns EXIT.OK after
\* fp.close() whatever the save tasks did.)
C3_WriteFailureReported ==
    (pc = "returned" /\ \E j \in 1..Len(wtasks) : wtasks[j].st = "AttributeError")
        => ret # "OK"

\* main has ended, by return or by an uncaught exception
Ended == pc \in {"returned", "raised"}

\* C4: a module without attribute main makes main abort before Dispatching
\* (stream not opened, file untouched, no pool, nothing submitted) and return
\* a status code other than those of success, module not resolvable and
\* write failure.  (The claim as stated; the branch looks up EXIT.NO_MAIN,
\* which the Enum does not have.)
C4_NoMainStatus ==
    (module = "no_main" /\ Ended) =>
        /\ fp = "none" /\ exe = "none" /\ tp = "none" /\ futures = <<>>
        /\ pc = "returned"
        /\ ExitValue \notin {EXIT.OK, EXIT.NO_MODULE_NAMED_Y,
                             EXIT.WRITE_IN_THREAD_FAILED}

\* C8: a malformed triple on any axis aborts the study with a non-zero status
\* before the stream is opened or truncated, before either pool is started
\* and before anything is submitted.  (The claim as stated; main validates
\* no triple, and expands them only inside the with block.)
C8_MalformedAbortsBeforeDispatch ==
    (module = "ok" /\ \E k \in 1..Len(args) : Malformed(args[k])) =>
        /\ fp = "none"
        /\ exe = "none" /\ tp = "none"
        /\ futures = <<>>
        /\ (Ended => ExitValue # 0)

\* C9: the number of invocations of the target function running at once never
\* exceeds the compute pool's worker count.
C9_RunningWithinWorkers == NumRunning <= cores

\* C9 witness: every worker is busy while a submitted tuple still waits
C9_Witness ==
    /\ cores >= 2
    /\ NumRunning = cores
    /\ \E i \in 1..Len(futures) : futures[i].st = "PENDING"

\* the lines this run can write
RunLines == {FormatLine(futures[i].state, TargetResult(futures[i].state)) :
                i \in 1..Len(futures)}

\* C10: a pre-existing out.swp is emptied before the stream is opened, so no
\* record is ever appended after a stale line, and after Closed the file
\* holds only lines of this run.
C10_StaleOutputDiscarded ==
    /\ fp # "none" => \A l \in 1..Len(disk.lines) : disk.lines[l] # StaleLine
    /\ Closed => \A l \in 1..Len(disk.lines) : disk.lines[l] \in RunLines

\* C10 witness: a study that found a stale out.swp has closed with its lines
C10_Witness ==
    /\ Closed
    /\ "resetting swap file..." \in {stdout[m] : m \in 1..Len(stdout)}
    /\ Len(disk.lines) >= 2

\* C11: the write pool's shutdown begins only after the compute pool has
\* drained and every completion callback has run: once thread_pool stops
\* accepting submissions no tuple is unsubmitted, no future is unfinished
\* and no callback is still to be called, so no save task is submitted to
\* (and refused by) a pool that is shut down.
C11_WritePoolShutdownAfterCallbacks ==
    tp = "shutdown" =>
        /\ exe = "joined"
        /\ gen = <<>>
        /\ \A i \in 1..Len(futures) :
              /\ futures[i].st = "FINISHED"
              /\ futures[i].calls = 1
              /\ futures[i].cb = (IF futures[i].exc THEN "raised" ELSE "ran")

\* C11 witness: the write pool is shut down while save tasks of at least two
\* finished futures are still queued or running
C11_Witness ==
    /\ tp = "shutdown"
    /\ Len(futures) >= 2
    /\ \E j \in 1..Len(wtasks) : wtasks[j].st = "queued"
    /\ \E j \in 1..Len(wtasks) : wtasks[j].st = "running"

\* the message main prints after fp.close()
ClosedMessage == "All tasks done, file closed succesfully"

\* C12: the stream is closed once, and only after every save task has ended:
\* no task is queued or running against a closed file, and none has found
\* the file closed.
C12_ClosedAfterWrites ==
    /\ Cardinality({m \in 1..Len(stdout) : stdout[m] = ClosedMessage})
          = (IF fp = "closed" THEN 1 ELSE 0)
    /\ fp = "closed" =>
          /\ tp = "shutdown"
          /\ \A j \in 1..Len(wtasks) : wtasks[j].st \in {"None", IOErrorHandler}
    /\ \A j \in 1..Len(wtasks) : wtasks[j].st # "ValueError"

\* C12 witness: the file is closed after at least two save tasks, one of
\* which wrote its line and one of which failed
C12_Witness ==
    /\ fp = "closed"
    /\ \E j \in 1..Len(wtasks) : wtasks[j].st = "None"
    /\ \E j \in 1..Len(wtasks) : wtasks[j].ioerr

\* C13: at most one writer thread is inside save's append to the shared
\* stream at a time.  (The claim as stated; save takes no lock, and the pool
\* runs up to 16 save calls at once.)
C13_OneWriterAtATime == NumSaving <= 1

\* C14: when fp.write fails with an I/O error, save returns
\* EXIT.WRITE_IN_THREAD_FAILED and does not raise out of the write task.
\* (The claim as stated; the handler's print(e.msg) raises AttributeError
\* before the return statement.)
C14_WriteFailureStatus ==
    \A j \in 1..Len(wtasks) :
        wtasks[j].ioerr => wtasks[j].st = "WRITE_IN_THREAD_FAILED"

\* C15: the compute pool is created with cpu_count - 1 workers but at least
\* one, so the study starts on every machine with at least one processing
\* unit.  (The claim as stated; cores is cpu_count - 1 with no minimum.)
C15_AtLeastOneWorker ==
    (module = "ok" /\ pc \notin {"import", "hasattr", "open", "pools"}) =>
        /\ cores = (IF cpu - 1 >= 1 THEN cpu - 1 ELSE 1)
        /\ cores >= 1
        /\ exe # "none"
        /\ ret # "ValueError"

\* the futures whose invocation raised and whose callback has been called
FailedAndNotified == {i \in 1..Len(futures) :
                         futures[i].exc /\ futures[i].calls >= 1}

\* the save tasks submitted for tuple t
TasksOf(t) == {j \in 1..Len(wtasks) : wtasks[j].state = t}

\* C16 as stated: for a failed invocation the callback is called once, the
\* failure is logged and counted, and nothing is submitted or written.
\* (The program keeps no count of failures.)
C16_FailureLoggedAndCounted ==
    /\ \A i \in FailedAndNotified :
          /\ futures[i].calls = 1
          /\ futures[i].cb = "raised"
          /\ TasksOf(futures[i].state) = {}
          /\ LinesOf(futures[i].state) = {}
    /\ FailureCount = Cardinality(FailedAndNotified)

\* C16 as amended: for a failed invocation the callback is still called,
\* exactly once (never twice, and by the time the compute pool is joined);
\* it ends by raising, which the executor logs; no save task is submitted
\* and no line is written for that tuple.
C16_FailureNotifiedNoWrite ==
    \A i \in 1..Len(futures) :
        futures[i].exc =>
            /\ futures[i].calls <= 1
            /\ exe = "joined" => futures[i].calls = 1
            /\ futures[i].calls = 1 => futures[i].cb = "raised"
            /\ TasksOf(futures[i].state) = {}
            /\ LinesOf(futures[i].state) = {}

\* C16 witness: the compute pool is joined, a failed invocation's callback
\* was called, and another tuple's line has been written
C16_Witness ==
    /\ exe = "joined"
    /\ FailedAndNotified # {}
    /\ \E i \in 1..Len(futures) :
          ~futures[i].exc /\ LinesOf(futures[i].state) # {}

\* the orchestrator's phases, by main's position
Dispatching == pc \in {"loop", "callback"}
Draining == pc \in {"exe_wait", "tp_shutdown", "tp_wait", "close"}

WellFormedArgs == \A k \in 1..Len(args) : ~Malformed(args[k])

\* C17: with a resolvable target and well-formed triples, the orchestrator
\* cannot stop short of Closed (under fair scheduling, with every invocation
\* returning or raising, it then reaches Closed); Draining begins with every
\* tuple submitted, and Closed with both pools drained, the stream closed
\* and a status returned.  (The claim as stated; on a machine with one
\* processing unit main stops at the pool's ValueError.)
C17_StudyReachesClosed ==
    (module = "ok" /\ WellFormedArgs) =>
        /\ Closed \/ ENABLED Next
        /\ Draining => gen = <<>> /\ Len(futures) = Len(Space)
        /\ Closed => /\ exe = "joined" /\ tp = "shutdown"
                     /\ ManagerThreadEnded /\ WriterThreadsEnded
                     /\ ret = "OK"

\* the line that pairs tuple t with the result of its own invocation
OwnLine(t) == FormatLine(t, TargetResult(t))

\* C18: every save task and every line written pairs the tuple of an
\* invocation main submitted with the result of that same invocation,
\* whatever the order in which invocations complete and lines are written.
C18_ResultPairedWithItsTuple ==
    /\ \A j \in 1..Len(wtasks) :
          \E i \in 1..Len(futures) :
              /\ wtasks[j].state = futures[i].state
              /\ wtasks[j].result = TargetResult(futures[i].state)
    /\ \A l \in 1..Len(disk.lines) :
          disk.lines[l] # StaleLine =>
              \E i \in 1..Len(futures) : disk.lines[l] = OwnLine(futures[i].state)

\* a closed run whose first line is that of the tuple submitted last
C18_Witness ==
    /\ Closed
    /\ Len(Space) >= 3
    /\ Len(disk.lines) >= 2
    /\ disk.lines[1] = OwnLine(Space[Len(Space)])
    /\ disk.lines[Len(disk.lines)] = OwnLine(Space[1])

\* the value sequence of triple cs is empty
ExpandsToEmpty(cs) ==
    LET r == float_range(Start(cs), Stop(cs), Step(cs))
    IN r.exc = "none" /\ r.val = <<>>

\* yield_parameter_space has returned the space to main's loop
SpaceBuilt == Dispatching \/ Draining \/ Closed

====
